---- MODULE Spec2Model ----
(***************************************************************************)
(* Model of PickaThon2.py, a night-shift scheduler.                        *)
(*                                                                         *)
(* Python dicts keyed by doctor name (the roster, doctor_shift_count) are  *)
(* insertion-ordered: the roster is a sequence of records that carry the   *)
(* name, and doctor_shift_count is a function over the roster's names.     *)
(* Dicts keyed by the days 1..N in ascending insertion order (the demand   *)
(* map, final_schedule) are sequences; dicts keyed by a subset of the days *)
(* (conflicts, resolved_schedule) are functions on that subset.            *)
(***************************************************************************)
EXTENDS Integers, Sequences, FiniteSets, TLC

VARIABLES
    session_state,       \* st.session_state: key -> value
    doctors,             \* the roster: sequence of doctor records
    month, year,         \* arguments of generate_initial_schedule
    schedule,            \* the demand map: day -> list of doctor names
    conflicts,           \* result of identify_conflicts, or NotComputed
    resolved_schedule,   \* the resolution map handed to finalize_schedule
    final_schedule,      \* finalize_schedule's local final_schedule
    doctor_shift_count,  \* finalize_schedule's local doctor_shift_count
    day,                 \* loop variable of the pass in progress
    pc,                  \* position in the code
    after_seed,          \* final_schedule as the seed pass left it
    after_fill,          \* final_schedule as the fill pass left it
    holidays,            \* result of get_public_holidays(year)
    date_str,            \* argument of is_weekend_or_holiday
    is_special           \* result of is_weekend_or_holiday

vars == <<session_state, doctors, month, year, schedule, conflicts, resolved_schedule,
          final_schedule, doctor_shift_count, day, pc, after_seed, after_fill,
          holidays, date_str, is_special>>

(***************************************************************************)
(* Bounds of the model.                                                    *)
(***************************************************************************)
MaxDays == 3        \* finalize_schedule is run on demand maps of 1..MaxDays days
MaxWanted == 2      \* wanted days per doctor
MaxExcluded == 1    \* excluded days per doctor
MaxShifts == 1      \* finite num_shifts values are 1..MaxShifts
MaxResolved == 1    \* entries of the resolution map

\* Names a doctor can have; a roster uses a prefix of them.
DoctorPool == <<"A", "B">>

\* Python's None.
None == "None"

\* float("inf"), the num_shifts of a doctor without a limit.
Inf == -1

\* Value of a dict or list variable before the code has computed it: the
\* empty dict (which is also the empty list).
NotComputed == <<>>

(***************************************************************************)
(* Helpers for Python lists.                                               *)
(***************************************************************************)
\* x in seq
Contains(seq, x) == \E i \in 1..Len(seq) : seq[i] = x

Range(seq) == {seq[i] : i \in 1..Len(seq)}

RECURSIVE SortedSeq(_)
\* The ascending list of a finite set of integers.
SortedSeq(S) ==
    IF S = {} THEN <<>>
    ELSE LET m == CHOOSE x \in S : \A y \in S : x <= y
         IN <<m>> \o SortedSeq(S \ {m})

\* The roster's names, in iteration order (doctors.keys()).
Names(roster) == [i \in 1..Len(roster) |-> roster[i].name]

\* doctors[doctor]
Details(roster, doctor) ==
    roster[CHOOSE i \in 1..Len(roster) : roster[i].name = doctor]

(***************************************************************************)
(* validate_days, generate_initial_schedule, identify_conflicts            *)
(***************************************************************************)
\* Mutant: the month's last day is dropped too.
validate_days_lt(days, num_days) ==
    SelectSeq(days, LAMBDA d : d < num_days)

validate_days(days, num_days) ==
    SelectSeq(days, LAMBDA d : d <= num_days)

\* Mutant: the exclusion test is dropped.
AssignWantedNoExclusion(sched, details, days) ==
    LET RECURSIVE Go(_, _)
        Go(s, i) ==
            IF i > Len(days) THEN s
            ELSE Go([s EXCEPT ![days[i]] = Append(@, details.name)], i + 1)
    IN Go(sched, 1)

\* The inner loop over one doctor's validated wanted days.
AssignWanted(sched, details, days) ==
    LET RECURSIVE Go(_, _)
        Go(s, i) ==
            IF i > Len(days) THEN s
            ELSE IF ~Contains(details.excluded_days, days[i])
                 THEN Go([s EXCEPT ![days[i]] = Append(@, details.name)], i + 1)
                 ELSE Go(s, i + 1)
    IN Go(sched, 1)

\* The demand map of a month of num_days days.
BuildSchedule(roster, num_days) ==
    LET RECURSIVE Go(_, _)
        Go(s, k) ==
            IF k > Len(roster) THEN s
            ELSE Go(AssignWanted(s, roster[k],
                                 validate_days(roster[k].wanted_days, num_days)),
                    k + 1)
    IN Go([d \in 1..num_days |-> <<>>], 1)

IsLeap(y) == (y % 4 = 0 /\ y % 100 # 0) \/ y % 400 = 0

\* (pd.Timestamp(year, month, 1) + pd.offsets.MonthEnd(0)).day
MonthEnd(y, m) ==
    IF m = 2 THEN (IF IsLeap(y) THEN 29 ELSE 28)
    ELSE IF m \in {4, 6, 9, 11} THEN 30 ELSE 31

generate_initial_schedule(roster, m, y) ==
    BuildSchedule(roster, MonthEnd(y, m))

\* Mutant: days with a single doctor count as conflicts.
identify_conflicts_ge1(sched) ==
    [d \in {e \in DOMAIN sched : Len(sched[e]) >= 1} |-> sched[d]]

identify_conflicts(sched) ==
    [d \in {e \in DOMAIN sched : Len(sched[e]) > 1} |-> sched[d]]

(***************************************************************************)
(* finalize_schedule                                                       *)
(***************************************************************************)
\* Mutant: a doctor at the limit still counts as below it.
ShiftsLeftGe(num_shifts, count) == num_shifts = Inf \/ num_shifts >= count

\* doctors[doctor].get('num_shifts', float('inf')) > count
ShiftsLeft(num_shifts, count) == num_shifts = Inf \/ num_shifts > count

\* Mutant: the day after is not tested.
available_doctors_noforward(roster, counts, final, d) ==
    SelectSeq(Names(roster), LAMBDA doctor :
        /\ ShiftsLeft(Details(roster, doctor).num_shifts, counts[doctor])
        /\ ~Contains(Details(roster, doctor).excluded_days, d)
        /\ (d = 1 \/ final[d - 1] # doctor))

\* Mutant: the day before is not tested.
available_doctors_noback(roster, counts, final, d) ==
    SelectSeq(Names(roster), LAMBDA doctor :
        /\ ShiftsLeft(Details(roster, doctor).num_shifts, counts[doctor])
        /\ ~Contains(Details(roster, doctor).excluded_days, d)
        /\ (d = Len(final) \/ final[d + 1] # doctor))

\* Mutant: the excluded days are not tested.
available_doctors_noexcl(roster, counts, final, d) ==
    SelectSeq(Names(roster), LAMBDA doctor :
        /\ ShiftsLeft(Details(roster, doctor).num_shifts, counts[doctor])
        /\ (d = 1 \/ final[d - 1] # doctor)
        /\ (d = Len(final) \/ final[d + 1] # doctor))

\* Mutant: the shift limit is not tested.
available_doctors_nolimit(roster, counts, final, d) ==
    SelectSeq(Names(roster), LAMBDA doctor :
        /\ ~Contains(Details(roster, doctor).excluded_days, d)
        /\ (d = 1 \/ final[d - 1] # doctor)
        /\ (d = Len(final) \/ final[d + 1] # doctor))

\* The list comprehension of the fill pass.
available_doctors(roster, counts, final, d) ==
    SelectSeq(Names(roster), LAMBDA doctor :
        /\ ShiftsLeft(Details(roster, doctor).num_shifts, counts[doctor])
        /\ ~Contains(Details(roster, doctor).excluded_days, d)
        /\ (d = 1 \/ final[d - 1] # doctor)
        /\ (d = Len(final) \/ final[d + 1] # doctor))

\* Mutant: the fill pass visits every day, assigned or not.
NeedsFillAlways(final, d) == TRUE

\* if final_schedule[day] is None
NeedsFill(final, d) == final[d] = None

\* The value the seed pass stores for a day.
SeedValue(sched, resolved, d) ==
    IF d \in DOMAIN resolved THEN resolved[d]
    ELSE IF Len(sched[d]) = 1 THEN sched[d][1]
    ELSE None

\* Mutant: the cleanup pass starts at day 3.
CleanupDaysFrom3(final) == 3..(Len(final) - 1)

\* range(2, len(final_schedule))
CleanupDays(final) == 2..(Len(final) - 1)

\* final_schedule[day] == final_schedule[day - 1]; true of two days that
\* both hold None.
SameAsDayBefore(final, d) == final[d] = final[d - 1]

\* Mutant: a doctor missing from doctor_shift_count is counted nowhere
\* instead of raising KeyError.
SeedDayLenient ==
    /\ pc = "seed"
    /\ LET v == SeedValue(schedule, resolved_schedule, day)
       IN /\ final_schedule' = Append(final_schedule, v)
          /\ doctor_shift_count' =
                IF v \in DOMAIN doctor_shift_count
                THEN [doctor_shift_count EXCEPT ![v] = @ + 1]
                ELSE doctor_shift_count
    /\ pc' = IF day = Len(schedule) THEN "fill" ELSE "seed"
    /\ day' = IF pc' = "seed" THEN day + 1 ELSE 1
    /\ after_seed' = IF pc' = "fill" THEN final_schedule' ELSE after_seed
    /\ UNCHANGED <<session_state, doctors, month, year, schedule, conflicts, resolved_schedule, after_fill,
                   holidays, date_str, is_special>>

\* One iteration of the seed pass.
SeedDay ==
    /\ pc = "seed"
    /\ LET v == SeedValue(schedule, resolved_schedule, day)
       IN /\ final_schedule' = Append(final_schedule, v)
          /\ IF v = None
             THEN /\ doctor_shift_count' = doctor_shift_count
                  /\ pc' = IF day = Len(schedule) THEN "fill" ELSE "seed"
             ELSE IF v \in DOMAIN doctor_shift_count
             THEN /\ doctor_shift_count' = [doctor_shift_count EXCEPT ![v] = @ + 1]
                  /\ pc' = IF day = Len(schedule) THEN "fill" ELSE "seed"
             ELSE \* KeyError: the doctor is not in the roster
                  /\ doctor_shift_count' = doctor_shift_count
                  /\ pc' = "error"
    /\ day' = IF pc' = "seed" THEN day + 1 ELSE IF pc' = "fill" THEN 1 ELSE day
    /\ after_seed' = IF pc' = "fill" THEN final_schedule' ELSE after_seed
    /\ UNCHANGED <<session_state, doctors, month, year, schedule, conflicts, resolved_schedule, after_fill,
                   holidays, date_str, is_special>>

\* One iteration of the fill pass.
FillDay ==
    /\ pc = "fill"
    /\ LET avail == available_doctors(doctors, doctor_shift_count, final_schedule, day)
       IN IF NeedsFill(final_schedule, day) /\ avail # <<>>
          THEN \E i \in 1..Len(avail) :   \* random.choice
                  /\ final_schedule' = [final_schedule EXCEPT ![day] = avail[i]]
                  /\ doctor_shift_count' = [doctor_shift_count EXCEPT ![avail[i]] = @ + 1]
          ELSE UNCHANGED <<final_schedule, doctor_shift_count>>
    /\ pc' = IF day < Len(final_schedule) THEN "fill"
             ELSE IF CleanupDays(final_schedule) # {} THEN "cleanup" ELSE "done"
    /\ day' = IF pc' = "fill" THEN day + 1
              ELSE IF pc' = "cleanup"
                   THEN CHOOSE d \in CleanupDays(final_schedule) :
                            \A e \in CleanupDays(final_schedule) : d <= e
                   ELSE day
    /\ after_fill' = IF pc' = "fill" THEN after_fill ELSE final_schedule'
    /\ UNCHANGED <<session_state, doctors, month, year, schedule, conflicts, resolved_schedule, after_seed,
                   holidays, date_str, is_special>>

\* Mutant: a day the cleanup pass unassigns is handed back to the fill pass.
CleanupDayRefill ==
    /\ pc = "cleanup"
    /\ IF final_schedule[day] = final_schedule[day - 1] /\ final_schedule[day] # None
       THEN /\ final_schedule' = [final_schedule EXCEPT ![day] = None]
            /\ pc' = "fill"
            /\ day' = day
       ELSE /\ final_schedule' = final_schedule
            /\ pc' = IF day + 1 \in CleanupDays(final_schedule) THEN "cleanup" ELSE "done"
            /\ day' = IF pc' = "cleanup" THEN day + 1 ELSE day
    /\ UNCHANGED <<session_state, doctors, month, year, schedule, conflicts, resolved_schedule,
                   doctor_shift_count, after_seed, after_fill,
                   holidays, date_str, is_special>>

\* Mutant: the cleanup pass compares a day with the day before as the fill
\* pass left it, not as the cleanup pass has left it.
CleanupDayUncleaned ==
    /\ pc = "cleanup"
    /\ final_schedule' = IF final_schedule[day] = after_fill[day - 1]
                         THEN [final_schedule EXCEPT ![day] = None]
                         ELSE final_schedule
    /\ pc' = IF day + 1 \in CleanupDays(final_schedule) THEN "cleanup" ELSE "done"
    /\ day' = IF pc' = "cleanup" THEN day + 1 ELSE day
    /\ UNCHANGED <<session_state, doctors, month, year, schedule, conflicts, resolved_schedule,
                   doctor_shift_count, after_seed, after_fill,
                   holidays, date_str, is_special>>

\* One iteration of the cleanup pass.
CleanupDay ==
    /\ pc = "cleanup"
    /\ final_schedule' = IF SameAsDayBefore(final_schedule, day)
                         THEN [final_schedule EXCEPT ![day] = None]
                         ELSE final_schedule
    /\ pc' = IF day + 1 \in CleanupDays(final_schedule) THEN "cleanup" ELSE "done"
    /\ day' = IF pc' = "cleanup" THEN day + 1 ELSE day
    /\ UNCHANGED <<session_state, doctors, month, year, schedule, conflicts, resolved_schedule,
                   doctor_shift_count, after_seed, after_fill,
                   holidays, date_str, is_special>>

(***************************************************************************)
(* Inputs of finalize_schedule.                                            *)
(***************************************************************************)
\* Ascending lists of at most k days out of 1..n.
DayLists(S, k) == {SortedSeq(T) : T \in {U \in SUBSET S : Cardinality(U) <= k}}

ShiftLimits == (1..MaxShifts) \cup {Inf}

\* Doctor records as the form builds them: wanted and excluded days disjoint.
FormDoctors(name, n) ==
    {[name |-> name, wanted_days |-> w, excluded_days |-> e, num_shifts |-> s] :
        <<w, e, s>> \in {t \in DayLists(1..n, MaxWanted) \X DayLists(1..n, MaxExcluded) \X ShiftLimits :
                            Range(t[1]) \cap Range(t[2]) = {}}}

\* Rosters of the first 0, 1 or 2 names of the pool.
FormRosters(n) ==
    {<<>>}
    \cup {<<a>> : a \in FormDoctors(DoctorPool[1], n)}
    \cup {<<a, b>> : <<a, b>> \in FormDoctors(DoctorPool[1], n) \X FormDoctors(DoctorPool[2], n)}

\* Resolution maps: any days, any names of the pool.
Resolutions(n) ==
    UNION {[D -> Range(DoctorPool)] : D \in {E \in SUBSET (1..n) : Cardinality(E) <= MaxResolved}}

\* Entry of finalize_schedule, after its two initialisations.
Init ==
    \E n \in 1..MaxDays :
      \E roster \in FormRosters(n), res \in Resolutions(n) :
        /\ doctors = roster
        /\ month = 0 /\ year = 0
        /\ schedule = BuildSchedule(roster, n)
        /\ conflicts = NotComputed
        /\ resolved_schedule = res
        /\ final_schedule = <<>>
        /\ doctor_shift_count = [d \in Range(Names(roster)) |-> 0]
        /\ day = 1
        /\ pc = "seed"
        /\ after_seed = NotComputed
        /\ after_fill = NotComputed
        /\ holidays = NotComputed
        /\ date_str = ""
        /\ is_special = FALSE
        /\ session_state = NotComputed

Next == SeedDay \/ FillDay \/ CleanupDay

Spec == Init /\ [][Next]_vars

\* finalize_schedule has returned final_schedule.
Returned == pc = "done"

TypeOK ==
    /\ pc \in {"seed", "fill", "cleanup", "done", "error"}
    /\ Len(final_schedule) <= Len(schedule)

(***************************************************************************)
(* Properties of finalize_schedule, checked under Spec.                    *)
(***************************************************************************)
RosterNames == Range(Names(doctors))

\* The days the returned schedule assigns to a doctor.
DaysOf(doctor) == {d \in 1..Len(final_schedule) : final_schedule[d] = doctor}

\* C1: in the returned schedule no two consecutive days are assigned to the
\* same doctor.
C1_NoConsecutiveDays ==
    Returned =>
        \A d \in 1..(Len(final_schedule) - 1) :
            ~(final_schedule[d] # None /\ final_schedule[d] = final_schedule[d + 1])

\* C2: in the returned schedule no doctor with a finite num_shifts holds more
\* days than num_shifts.
C2_WithinMaxShifts ==
    Returned =>
        \A i \in 1..Len(doctors) :
            doctors[i].num_shifts # Inf =>
                Cardinality(DaysOf(doctors[i].name)) <= doctors[i].num_shifts

\* C4: the returned schedule has exactly the days 1..N of the demand map, and
\* each day holds None or the name of one doctor of the roster.
C4_ScheduleShape ==
    Returned =>
        /\ DOMAIN final_schedule = DOMAIN schedule
        /\ \A d \in DOMAIN final_schedule :
              final_schedule[d] \in RosterNames \cup {None}

\* A run returned a schedule with a day left unfilled, a day taken from the
\* resolution map and a day assigned by the fill pass.
C4_Witness ==
    /\ Returned
    /\ Len(final_schedule) = MaxDays
    /\ \E d \in DOMAIN final_schedule : final_schedule[d] = None
    /\ \E d \in DOMAIN resolved_schedule : final_schedule[d] = resolved_schedule[d]
    /\ \E d \in DOMAIN final_schedule : after_seed[d] = None /\ final_schedule[d] # None

\* An entry of the resolution map is well formed: its day is a conflict of
\* the demand map and its doctor one of the day's candidates.
WellFormed(d) ==
    /\ d \in DOMAIN identify_conflicts(schedule)
    /\ Contains(schedule[d], resolved_schedule[d])

\* C7: a day the seed pass committed keeps its doctor through the fill pass;
\* in the returned schedule it holds that doctor, or None when it is an
\* interior day that the cleanup pass found equal to the preceding day; a
\* well-formed resolution entry {d: r} is returned as d = r unless day d-1
\* was seeded with r.
C7_SeedDaysKept ==
    /\ pc \in {"fill", "cleanup", "done"} =>
          \A d \in DOMAIN after_seed :
              after_seed[d] # None =>
                  \/ final_schedule[d] = after_seed[d]
                  \/ /\ pc \in {"cleanup", "done"}
                     /\ final_schedule[d] = None
                     /\ d \in CleanupDays(after_fill)
                     /\ after_fill[d - 1] = after_seed[d]
    /\ Returned =>
          \A d \in DOMAIN resolved_schedule :
              (WellFormed(d) /\ (d = 1 \/ after_seed[d - 1] # resolved_schedule[d]))
                  => final_schedule[d] = resolved_schedule[d]

\* A run returned a well-formed resolution entry unchanged, filled another
\* day in the fill pass and lost a seeded day to the cleanup pass.
C7_Witness ==
    /\ Returned
    /\ \E d \in DOMAIN resolved_schedule :
          WellFormed(d) /\ final_schedule[d] = resolved_schedule[d]
    /\ \E d \in DOMAIN final_schedule : after_seed[d] = None /\ final_schedule[d] # None
    /\ \E d \in DOMAIN final_schedule : after_seed[d] # None /\ final_schedule[d] = None

\* The run of the example: roster {A: wanted [1,2], excluded [], num_shifts 1},
\* demand map {1:[A], 2:[A], 3:[]}, empty resolution map.
C8_Input ==
    /\ doctors = <<[name |-> "A", wanted_days |-> <<1, 2>>,
                    excluded_days |-> <<>>, num_shifts |-> 1]>>
    /\ schedule = << <<"A">>, <<"A">>, <<>> >>
    /\ resolved_schedule = <<>>

\* C8: on the example the seed pass yields {1:A, 2:A, 3:None} with A counted
\* twice, the fill pass changes nothing, and the run returns
\* {1:A, 2:None, 3:None}.
C8_Example ==
    C8_Input =>
        /\ pc # "error"
        /\ pc \in {"fill", "cleanup", "done"} =>
              /\ after_seed = <<"A", "A", None>>
              /\ doctor_shift_count["A"] = 2
        /\ pc \in {"cleanup", "done"} => after_fill = <<"A", "A", None>>
        /\ Returned => final_schedule = <<"A", None, None>>

\* The example run has returned.
C8_Witness == C8_Input /\ Returned /\ final_schedule = <<"A", None, None>>

\* What the seed pass stores for a day without a resolution entry.
UnresolvedSeed(d) == IF Len(schedule[d]) = 1 THEN schedule[d][1] ELSE None

\* C10: a malformed entry of the resolution map is ignored or raises: when
\* a run returns, the seed pass has given the day of every malformed entry
\* what it gives a day without an entry, so the day holds the entry's doctor
\* only if the demand map or the fill pass put the doctor there.
C10_MalformedRejected ==
    Returned =>
        \A d \in DOMAIN resolved_schedule :
            ~WellFormed(d) => after_seed[d] = UnresolvedSeed(d)

(***************************************************************************)
(* The passes of finalize_schedule, checked under Spec.                    *)
(***************************************************************************)
\* The passes in the order the code runs them.
PassNo(p) ==
    CASE p = "seed" -> 1 [] p = "fill" -> 2 [] p = "cleanup" -> 3 [] OTHER -> 4

\* Loop iterations a run can still make, at most.
Rank(p, d, n) ==
    CASE p = "seed" -> (n - d + 1) + 2 * n
      [] p = "fill" -> (n - d + 1) + n
      [] p = "cleanup" -> n - d + 1
      [] OTHER -> 0

\* C14: a run that has not returned or raised can take a step; every step
\* uses up one of the finitely many iterations left, stays in the pass on
\* the next day or moves on to a later pass, so each pass visits each day at
\* most once in ascending order, the cleanup pass runs once and the fill
\* pass never runs after it.
C14_Terminates ==
    /\ [](pc \notin {"done", "error"} => ENABLED Next)
    /\ [][/\ Rank(pc', day', Len(schedule)) < Rank(pc, day, Len(schedule))
          /\ Rank(pc', day', Len(schedule)) >= 0
          /\ PassNo(pc') >= PassNo(pc)
          /\ PassNo(pc') = PassNo(pc) => day' = day + 1]_vars

\* A run over the most days returned after the cleanup pass unassigned a day.
C14_Witness ==
    /\ Returned
    /\ Len(final_schedule) = MaxDays
    /\ \E d \in DOMAIN final_schedule : after_fill[d] # None /\ final_schedule[d] = None

\* C15 as stated: when the fill pass evaluates its test for an unassigned
\* day before the last, the day after is unassigned.
C15_NextDayUnassigned ==
    (pc = "fill" /\ day < Len(final_schedule) /\ final_schedule[day] = None)
        => final_schedule[day + 1] = None

\* The doctor passes the tests of the fill pass other than that of the day
\* after.
PassesOtherTests(doctor, d) ==
    /\ ShiftsLeft(Details(doctors, doctor).num_shifts, doctor_shift_count[doctor])
    /\ ~Contains(Details(doctors, doctor).excluded_days, d)
    /\ (d = 1 \/ final_schedule[d - 1] # doctor)

\* C15 amended: when the fill pass evaluates its test for an unassigned day
\* before the last, the day after holds what the seed pass gave it, None or
\* a doctor, and the test of the day after excludes exactly the doctor the
\* seed pass put there.
C15_NextDayAsSeeded ==
    (pc = "fill" /\ day < Len(final_schedule) /\ final_schedule[day] = None) =>
        /\ final_schedule[day + 1] = after_seed[day + 1]
        /\ \A doctor \in RosterNames :
              PassesOtherTests(doctor, day) =>
                  (Contains(available_doctors(doctors, doctor_shift_count,
                                              final_schedule, day), doctor)
                      <=> after_seed[day + 1] # doctor)

\* The fill pass is at an unassigned day whose next day was seeded with a
\* doctor who passes the other tests.
C15_Witness ==
    /\ pc = "fill" /\ day < Len(final_schedule) /\ final_schedule[day] = None
    /\ final_schedule[day + 1] \in RosterNames
    /\ PassesOtherTests(final_schedule[day + 1], day)

\* C16: the cleanup pass sets to None the days 2..N-1 that hold the value of
\* the cleaned day before, and nothing else: day 1, day N and every other
\* day are returned as the fill pass left them, and doctor_shift_count is
\* still the count of the days the seed and fill passes assigned.
C16_CleanupFrame ==
    Returned =>
        /\ \A d \in DOMAIN final_schedule :
              final_schedule[d] =
                  IF d \in 2..(Len(final_schedule) - 1) /\ after_fill[d] = final_schedule[d - 1]
                  THEN None
                  ELSE after_fill[d]
        /\ \A doctor \in RosterNames :
              doctor_shift_count[doctor] =
                  Cardinality({d \in DOMAIN after_fill : after_fill[d] = doctor})

\* A run returned in which three days in a row held one doctor after the
\* fill pass: the cleanup pass unassigned the second and, comparing the
\* third with the cleaned second, kept the third; the first and the last
\* day of the month kept their doctors.
C16_Witness ==
    /\ Returned
    /\ \E d \in 3..(Len(final_schedule) - 1) :
          /\ after_fill[d] # None
          /\ after_fill[d - 1] = after_fill[d]
          /\ after_fill[d - 2] = after_fill[d]
          /\ final_schedule[d - 1] = None
          /\ final_schedule[d] = after_fill[d]
    /\ final_schedule[1] # None
    /\ final_schedule[Len(final_schedule)] # None

\* The doctors the fill pass may give day d, from the four tests of the code.
Eligible(d) ==
    {doctor \in RosterNames :
        /\ \/ Details(doctors, doctor).num_shifts = Inf
           \/ doctor_shift_count[doctor] < Details(doctors, doctor).num_shifts
        /\ ~Contains(Details(doctors, doctor).excluded_days, d)
        /\ ~(d > 1 /\ final_schedule[d - 1] = doctor)
        /\ ~(d < Len(final_schedule) /\ final_schedule[d + 1] = doctor)}

\* C17: when the fill pass visits a day the seed pass left unassigned, the
\* day stays unassigned and the counters stay as they are exactly when no
\* doctor is eligible; otherwise the day goes to an eligible doctor whose
\* counter goes up by one; no other day changes and the visit never raises.
C17_FillDay ==
    [][(pc = "fill" /\ final_schedule[day] = None) =>
          /\ pc' # "error"
          /\ \A d \in DOMAIN final_schedule :
                d # day => final_schedule'[d] = final_schedule[d]
          /\ IF Eligible(day) = {}
             THEN /\ final_schedule'[day] = None
                  /\ doctor_shift_count' = doctor_shift_count
             ELSE /\ final_schedule'[day] \in Eligible(day)
                  /\ doctor_shift_count' =
                        [doctor_shift_count EXCEPT ![final_schedule'[day]] = @ + 1]]_vars

\* The fill pass is over: it assigned one day the seed pass left unassigned
\* and left another unassigned although the roster has doctors.
C17_Witness ==
    /\ pc \in {"cleanup", "done"}
    /\ doctors # <<>>
    /\ \E d \in DOMAIN after_fill : after_seed[d] = None /\ after_fill[d] # None
    /\ \E d \in DOMAIN after_fill : after_seed[d] = None /\ after_fill[d] = None

\* C18: when the fill pass is over, two consecutive days that hold the same
\* doctor (two days that both hold None are no such pair) were both
\* assigned by the seed pass; the same holds of the
\* returned schedule.
C18_FillNoAdjacency ==
    /\ pc \in {"cleanup", "done"} =>
          \A d \in 1..(Len(after_fill) - 1) :
              (after_fill[d] # None /\ SameAsDayBefore(after_fill, d + 1)) =>
                  after_seed[d] = after_fill[d] /\ after_seed[d + 1] = after_fill[d]
    /\ Returned =>
          \A d \in 1..(Len(final_schedule) - 1) :
              (final_schedule[d] # None /\ SameAsDayBefore(final_schedule, d + 1)) =>
                  after_seed[d] = final_schedule[d] /\ after_seed[d + 1] = final_schedule[d]

\* A returned schedule with two seeded days of one doctor side by side and a
\* day the fill pass assigned next to them.
C18_Witness ==
    /\ Returned
    /\ \E d \in 1..(Len(final_schedule) - 1) :
          final_schedule[d] # None /\ SameAsDayBefore(final_schedule, d + 1)
    /\ \E d \in 1..(Len(final_schedule) - 1) :
          /\ final_schedule[d] # None /\ final_schedule[d + 1] # None
          /\ after_seed[d] = None \/ after_seed[d + 1] = None

\* The resolution map names, for the days of the demand map, doctors of the
\* day's candidate list only.
ResolvedFromCandidates ==
    \A d \in DOMAIN resolved_schedule :
        d \in DOMAIN schedule => Contains(schedule[d], resolved_schedule[d])

Assigned(final, doctor) == Cardinality({d \in DOMAIN final : final[d] = doctor})

\* The larger of two integers.
Max(a, b) == IF a >= b THEN a ELSE b

\* The days the fill pass has given the doctor so far.
FillAssigned(doctor) == doctor_shift_count[doctor] - Assigned(after_seed, doctor)

\* C20: once the seed pass is over, a doctor with a limit has from the fill
\* pass at most max(0, num_shifts - seeded days) days; a step of the fill
\* pass that gives a doctor a day finds the counter below the limit; and no
\* step lowers a counter.
C20_FillWithinLimit ==
    /\ [](pc \in {"fill", "cleanup", "done"} =>
            \A doctor \in RosterNames :
                Details(doctors, doctor).num_shifts # Inf =>
                    FillAssigned(doctor) <=
                        Max(0, Details(doctors, doctor).num_shifts
                                   - Assigned(after_seed, doctor)))
    /\ [][/\ \A doctor \in DOMAIN doctor_shift_count :
                doctor_shift_count'[doctor] >= doctor_shift_count[doctor]
          /\ \A doctor \in RosterNames :
                (/\ pc = "fill"
                 /\ doctor_shift_count'[doctor] > doctor_shift_count[doctor]
                 /\ Details(doctors, doctor).num_shifts # Inf)
                    => doctor_shift_count[doctor] < Details(doctors, doctor).num_shifts]_vars

\* A run returned in which a doctor with a limit was seeded past it and the
\* fill pass took a doctor up to the limit.
C20_Witness ==
    /\ Returned
    /\ \E doctor \in RosterNames :
          /\ Details(doctors, doctor).num_shifts # Inf
          /\ Assigned(after_seed, doctor) > Details(doctors, doctor).num_shifts
    /\ \E doctor \in RosterNames :
          /\ Details(doctors, doctor).num_shifts # Inf
          /\ FillAssigned(doctor) > 0
          /\ doctor_shift_count[doctor] = Details(doctors, doctor).num_shifts

(***************************************************************************)
(* finalize_schedule as one call: every schedule it can return.            *)
(***************************************************************************)
\* final_schedule after the first loop.
SeedPass(sched, resolved) ==
    [d \in 1..Len(sched) |-> SeedValue(sched, resolved, d)]

\* doctor_shift_count after the first loop.
SeedCounts(seeded, roster) ==
    [doctor \in Range(Names(roster)) |->
        Cardinality({d \in DOMAIN seeded : seeded[d] = doctor})]

\* The first loop raises KeyError: it counts a shift for a doctor who is
\* not a key of doctor_shift_count.
finalize_raises(sched, resolved, roster) ==
    \E d \in 1..Len(sched) :
        /\ SeedValue(sched, resolved, d) # None
        /\ SeedValue(sched, resolved, d) \notin Range(Names(roster))

RECURSIVE FillPass(_, _, _, _)
\* The schedules the second loop can leave, from day d on, over the
\* outcomes of random.choice.
FillPass(roster, final, counts, d) ==
    IF d > Len(final) THEN {final}
    ELSE LET avail == available_doctors(roster, counts, final, d)
         IN IF NeedsFill(final, d) /\ avail # <<>>
            THEN UNION {FillPass(roster,
                                 [final EXCEPT ![d] = avail[i]],
                                 [counts EXCEPT ![avail[i]] = @ + 1],
                                 d + 1) : i \in 1..Len(avail)}
            ELSE FillPass(roster, final, counts, d + 1)

\* The schedule the third loop leaves.
CleanupPass(final) ==
    LET RECURSIVE Go(_, _)
        Go(f, d) ==
            IF d > Len(f) THEN f
            ELSE IF d \in CleanupDays(f) /\ SameAsDayBefore(f, d)
                 THEN Go([f EXCEPT ![d] = None], d + 1)
                 ELSE Go(f, d + 1)
    IN Go(final, 1)

\* The schedules a call that does not raise can return.
finalize_schedule(sched, resolved, roster) ==
    LET seeded == SeedPass(sched, resolved)
    IN {CleanupPass(f) : f \in FillPass(roster, seeded, SeedCounts(seeded, roster), 1)}

\* The loops run one iteration at a time return what the call returns, and
\* raise when the call raises.
StepsAgreeWithCall ==
    /\ Returned =>
          /\ ~finalize_raises(schedule, resolved_schedule, doctors)
          /\ final_schedule \in finalize_schedule(schedule, resolved_schedule, doctors)
    /\ pc = "error" => finalize_raises(schedule, resolved_schedule, doctors)

(***************************************************************************)
(* generate_initial_schedule and identify_conflicts on real months.        *)
(***************************************************************************)
\* Years the month length is computed for: a leap year by 400, a leap year
\* by 4, a common year and a century that is no leap year.
Years == {2000, 2024, 2025, 2100}

\* Days the preferences are drawn from: a day every month has and two days
\* a month can lack.
GenDays == {1, 29, 31}

\* Doctor records a caller can pass: wanted and excluded days may overlap.
AnyDoctors(name) ==
    {[name |-> name, wanted_days |-> w, excluded_days |-> e, num_shifts |-> Inf] :
        <<w, e>> \in DayLists(GenDays, MaxWanted) \X DayLists(GenDays, MaxExcluded)}

AnyRosters ==
    {<<>>}
    \cup {<<a>> : a \in AnyDoctors(DoctorPool[1])}
    \cup {<<a, b>> : <<a, b>> \in AnyDoctors(DoctorPool[1]) \X AnyDoctors(DoctorPool[2])}

\* schedule[day] raises KeyError for a validated wanted day that is no key.
GenerateRaises(roster, num_days) ==
    \E k \in 1..Len(roster) :
        \E d \in Range(validate_days(roster[k].wanted_days, num_days)) :
            /\ ~Contains(roster[k].excluded_days, d)
            /\ d \notin 1..num_days

GenInit ==
    \E roster \in AnyRosters, m \in 1..12, y \in Years :
        /\ doctors = roster
        /\ month = m /\ year = y
        /\ schedule = NotComputed
        /\ conflicts = NotComputed
        /\ resolved_schedule = <<>>
        /\ final_schedule = <<>>
        /\ doctor_shift_count = <<>>
        /\ day = 0
        /\ pc = "generate"
        /\ after_seed = NotComputed
        /\ after_fill = NotComputed
        /\ holidays = NotComputed
        /\ date_str = ""
        /\ is_special = FALSE
        /\ session_state = NotComputed

\* st.session_state["initial_schedule"] = generate_initial_schedule(...)
Generate ==
    /\ pc = "generate"
    /\ IF GenerateRaises(doctors, MonthEnd(year, month))
       THEN pc' = "error" /\ schedule' = schedule
       ELSE /\ schedule' = generate_initial_schedule(doctors, month, year)
            /\ pc' = "identify"
    /\ UNCHANGED <<session_state, doctors, month, year, conflicts, resolved_schedule, final_schedule,
                   doctor_shift_count, day, after_seed, after_fill,
                   holidays, date_str, is_special>>

\* st.session_state["conflicts"] = identify_conflicts(initial_schedule)
Identify ==
    /\ pc = "identify"
    /\ conflicts' = identify_conflicts(schedule)
    /\ pc' = "identified"
    /\ UNCHANGED <<session_state, doctors, month, year, schedule, resolved_schedule, final_schedule,
                   doctor_shift_count, day, after_seed, after_fill,
                   holidays, date_str, is_special>>

GenNext == Generate \/ Identify

SpecGen == GenInit /\ [][GenNext]_vars

\* generate_initial_schedule has returned.
Generated == pc \in {"identify", "identified"}

\* C3: no doctor is listed on a day of the doctor's excluded_days, wanted or
\* not.
C3_ExcludedNeverListed ==
    Generated =>
        \A i \in 1..Len(doctors), d \in DOMAIN schedule :
            Contains(doctors[i].excluded_days, d)
                => ~Contains(schedule[d], doctors[i].name)

\* A demand map was built for a doctor who both wants and excludes a day of
\* the month, and for another who is listed on that day.
C3_Witness ==
    /\ Generated
    /\ \E i \in 1..Len(doctors), d \in DOMAIN schedule :
          /\ Contains(doctors[i].wanted_days, d)
          /\ Contains(doctors[i].excluded_days, d)
          /\ schedule[d] # <<>>

\* C5: identify_conflicts returns the days of the demand map with more than
\* one doctor, each with the demand map's list, and the demand map is still
\* the one generate_initial_schedule built.
C5_ConflictsAreFilter ==
    pc = "identified" =>
        /\ DOMAIN conflicts = {d \in DOMAIN schedule : Len(schedule[d]) > 1}
        /\ \A d \in DOMAIN conflicts : conflicts[d] = schedule[d]
        /\ schedule = generate_initial_schedule(doctors, month, year)

\* Conflicts were identified in a demand map that has a conflicted day, a
\* day with a single doctor and an empty day.
C5_Witness ==
    /\ pc = "identified"
    /\ DOMAIN conflicts # {}
    /\ \E d \in DOMAIN schedule : Len(schedule[d]) = 1
    /\ \E d \in DOMAIN schedule : Len(schedule[d]) = 0

\* Length of a month by the calendar: 30 days has September, April, June and
\* November, February 28 or 29, all the rest 31.
CalendarDays(y, m) ==
    CASE m \in {9, 4, 6, 11} -> 30
      [] m = 2 -> 28 + (IF y % 400 = 0 THEN 1
                        ELSE IF y % 100 = 0 THEN 0
                        ELSE IF y % 4 = 0 THEN 1 ELSE 0)
      [] OTHER -> 31

\* C9: generate_initial_schedule raises nothing; the demand map has the days
\* 1..N of the month, and the list of a day holds, in roster order, exactly
\* the doctors who want the day and do not exclude it.
C9_DemandMap ==
    /\ pc # "error"
    /\ Generated =>
          /\ DOMAIN schedule = 1..CalendarDays(year, month)
          /\ \A d \in DOMAIN schedule :
                schedule[d] = SelectSeq(Names(doctors), LAMBDA doctor :
                    /\ Contains(Details(doctors, doctor).wanted_days, d)
                    /\ ~Contains(Details(doctors, doctor).excluded_days, d))

\* A demand map was built for a month shorter than a wanted day, with two
\* doctors on the month's last day.
C9_Witness ==
    /\ Generated
    /\ \E i \in 1..Len(doctors) :
          \E d \in Range(doctors[i].wanted_days) : d > Len(schedule)
    /\ Len(schedule[Len(schedule)]) = 2

(***************************************************************************)
(* get_public_holidays and is_weekend_or_holiday                           *)
(***************************************************************************)
\* The public_holidays table: month -> list of "MM-DD" strings.
public_holidays ==
    << <<1, <<"01-01", "01-06">> >>,
       <<4, <<"04-01">> >>,
       <<5, <<"05-01", "05-08">> >>,
       <<7, <<"07-05">> >>,
       <<8, <<"08-29">> >>,
       <<9, <<"09-01", "09-15">> >>,
       <<11, <<"11-01", "11-17">> >>,
       <<12, <<"12-24", "12-25", "12-26">> >> >>

\* The format spec 02d.
Pad2(n) == IF n < 10 THEN "0" \o ToString(n) ELSE ToString(n)

\* f"{year}-{month:02d}-{day}"
HolidayString(y, m, d) == ToString(y) \o "-" \o Pad2(m) \o "-" \o d

\* The list of holiday strings of a year, in table order.
get_public_holidays(y) ==
    LET RECURSIVE Months(_)
        Months(k) ==
            IF k > Len(public_holidays) THEN <<>>
            ELSE [i \in 1..Len(public_holidays[k][2]) |->
                      HolidayString(y, public_holidays[k][1], public_holidays[k][2][i])]
                 \o Months(k + 1)
    IN Months(1)

\* f"{selected_year}-{selected_month:02d}-{day:02d}"
DateString(y, m, d) == ToString(y) \o "-" \o Pad2(m) \o "-" \o Pad2(d)

IsDigit(c) == \E n \in 0..9 : ToString(n) = c

RECURSIVE ParseInt(_)
\* int() of a string of digits.
ParseInt(str) ==
    IF Len(str) = 0 THEN 0
    ELSE 10 * ParseInt(SubSeq(str, 1, Len(str) - 1))
         + (CHOOSE n \in 0..9 : ToString(n) = SubSeq(str, Len(str), Len(str)))

\* The string has the form YYYY-MM-DD.
IsIsoDate(str) ==
    /\ Len(str) = 10
    /\ \A i \in {1, 2, 3, 4, 6, 7, 9, 10} : IsDigit(SubSeq(str, i, i))
    /\ SubSeq(str, 5, 5) = "-" /\ SubSeq(str, 8, 8) = "-"

\* datetime.strptime(date_str, "%Y-%m-%d") of a string of that form.
strptime(str) ==
    [year |-> ParseInt(SubSeq(str, 1, 4)),
     month |-> ParseInt(SubSeq(str, 6, 7)),
     day |-> ParseInt(SubSeq(str, 9, 10))]

\* Days of the months before month m in year y.
DaysBeforeMonth(y, m) ==
    LET RECURSIVE Sum(_)
        Sum(k) == IF k < 1 THEN 0 ELSE MonthEnd(y, k) + Sum(k - 1)
    IN Sum(m - 1)

\* date.weekday(): Monday is 0, Sunday is 6.
weekday(date) ==
    LET y == date.year - 1
        ordinal == y * 365 + (y \div 4) - (y \div 100) + (y \div 400)
                   + DaysBeforeMonth(date.year, date.month) + date.day
    IN (ordinal + 6) % 7

is_weekend_or_holiday(str, hols) ==
    LET date_obj == strptime(str)
        is_weekend == weekday(date_obj) >= 5
        is_holiday == Contains(hols, str)
    IN is_weekend \/ is_holiday

HolInit ==
    \E y \in Years :
        /\ doctors = <<>>
        /\ month = 0 /\ year = y
        /\ schedule = NotComputed
        /\ conflicts = NotComputed
        /\ resolved_schedule = <<>>
        /\ final_schedule = <<>>
        /\ doctor_shift_count = <<>>
        /\ day = 0
        /\ pc = "holidays"
        /\ after_seed = NotComputed
        /\ after_fill = NotComputed
        /\ holidays = NotComputed
        /\ date_str = ""
        /\ is_special = FALSE
        /\ session_state = NotComputed

\* holidays = get_public_holidays(selected_year)
GetHolidays ==
    /\ pc = "holidays"
    /\ holidays' = get_public_holidays(year)
    /\ pc' = "display"
    /\ UNCHANGED <<session_state, doctors, month, year, schedule, conflicts, resolved_schedule,
                   final_schedule, doctor_shift_count, day, after_seed, after_fill,
                   date_str, is_special>>

\* One row of the display loop: a date of the year is built and tested.
DisplayDay ==
    /\ pc \in {"display", "displayed"}
    /\ \E m \in 1..12 :
          \E d \in 1..MonthEnd(year, m) :
              /\ month' = m
              /\ day' = d
              /\ date_str' = DateString(year, m, d)
              /\ is_special' = is_weekend_or_holiday(date_str', holidays)
    /\ pc' = "displayed"
    /\ UNCHANGED <<session_state, doctors, year, schedule, conflicts, resolved_schedule,
                   final_schedule, doctor_shift_count, after_seed, after_fill, holidays>>

HolNext == GetHolidays \/ DisplayDay

SpecHolidays == HolInit /\ [][HolNext]_vars

\* The date is a date of the public_holidays table in the given year.
IsTableDate(str, y) ==
    \E k \in 1..Len(public_holidays) :
        \E i \in 1..Len(public_holidays[k][2]) :
            str = ToString(y) \o "-" \o public_holidays[k][2][i]

\* C6: every string of get_public_holidays(year) has the form YYYY-MM-DD, and
\* is_weekend_or_holiday is true of every date of the holiday table.
C6_HolidaysFlagged ==
    /\ pc \in {"display", "displayed"} =>
          \A i \in 1..Len(holidays) : IsIsoDate(holidays[i])
    /\ (pc = "displayed" /\ IsTableDate(date_str, year)) => is_special
(***************************************************************************)
(* main: the Streamlit session.  Every interaction runs the widget's       *)
(* on_change callback, if it has one, and then main from the top, with     *)
(* st.session_state kept from run to run.                                  *)
(***************************************************************************)
\* Years the session can start in.
AppYears == {2024, 2025}

\* Months the session uses.
AppMonths == {2, 4}

\* Days picked in the multiselects of the form.
AppDays == {1}

\* Values typed into the number_input of the form: its min_value, and its
\* max_value.
FormShifts == {0, 31}

\* key in st.session_state
Has(ss, key) == key \in DOMAIN ss

\* st.session_state[key] = val
Put(ss, key, val) == [k \in DOMAIN ss \cup {key} |-> IF k = key THEN val ELSE ss[k]]

\* del st.session_state[key], for each of the keys
Del(ss, keys) == [k \in DOMAIN ss \ keys |-> ss[k]]

\* key.startswith(prefix)
startswith(key, prefix) ==
    Len(key) >= Len(prefix) /\ SubSeq(key, 1, Len(prefix)) = prefix

\* f"conflict_{day}"
ConflictKey(d) == "conflict_" \o ToString(d)

\* The keys reset_scheduling_process deletes.
ResetKeys(ss) ==
    {key \in DOMAIN ss :
        \/ startswith(key, "conflict_")
        \/ key \in {"initial_schedule", "conflicts", "final_schedule"}}

\* Mutant: the stored choices are kept.
reset_scheduling_process_keep_choices(ss) ==
    Del(ss, {key \in DOMAIN ss :
                key \in {"initial_schedule", "conflicts", "final_schedule"}})

reset_scheduling_process(ss) == Del(ss, ResetKeys(ss))

\* st.session_state["doctors"][name] = details: a new key goes last, a key
\* already there keeps its place.
SetDoctor(roster, details) ==
    IF Contains(Names(roster), details.name)
    THEN [i \in 1..Len(roster) |->
             IF roster[i].name = details.name THEN details ELSE roster[i]]
    ELSE Append(roster, details)

\* num_shifts if num_shifts > 0 else float("inf")
StoredShifts(num_shifts) == IF num_shifts > 0 THEN num_shifts ELSE Inf

\* The form block of main.
SubmitForm(ss, form) ==
    IF form.add_doctor /\ form.name # ""
    THEN IF Range(form.wanted_days) \cap Range(form.excluded_days) # {}
         THEN ss   \* st.error
         ELSE Put(ss, "doctors",
                  SetDoctor(ss["doctors"],
                            [name |-> form.name,
                             wanted_days |-> form.wanted_days,
                             excluded_days |-> form.excluded_days,
                             num_shifts |-> StoredShifts(form.num_shifts)]))
    ELSE ss

\* The form as a run finds it when Add Doctor was not pressed.
NoForm ==
    [add_doctor |-> FALSE, name |-> "", wanted_days |-> <<>>,
     excluded_days |-> <<>>, num_shifts |-> 0]

\* What the user can submit with the form.
Forms ==
    [add_doctor : {TRUE},
     name : Range(DoctorPool) \cup {""},
     wanted_days : {SortedSeq(S) : S \in SUBSET AppDays},
     excluded_days : {SortedSeq(S) : S \in SUBSET AppDays},
     num_shifts : FormShifts]
\* Mutant: a day without a stored choice gets no entry.
resolve_conflicts_nodefault(conf, ss) ==
    LET days == {d \in DOMAIN conf : Has(ss, ConflictKey(d))}
    IN [state |-> ss,
        resolved |-> [d \in days |-> ss[ConflictKey(d)]],
        raised |-> \E d \in days : ~Contains(conf[d], ss[ConflictKey(d)])]

\* resolve_conflicts over st.session_state: the state it leaves, the map it
\* returns, and whether doctors_list.index(...) raised ValueError on the way
\* (the stored choice is not in the day's list).
resolve_conflicts(conf, ss) ==
    LET RECURSIVE Go(_, _, _)
        Go(st, res, days) ==
            IF days = <<>> THEN [state |-> st, resolved |-> res, raised |-> FALSE]
            ELSE LET d == Head(days)
                     key == ConflictKey(d)
                     st1 == IF Has(st, key) THEN st ELSE Put(st, key, conf[d][1])
                 IN IF ~Contains(conf[d], st1[key])
                    THEN [state |-> st1, resolved |-> res, raised |-> TRUE]
                    ELSE Go(st1, Put(res, d, st1[key]), Tail(days))
    IN Go(ss, <<>>, SortedSeq(DOMAIN conf))

\* The block under the Generate Schedule button: the outcomes of a run up to
\* the end of the block.
GeneratePart(ss, selected_year, selected_month, generate) ==
    IF ~generate
    THEN {[state |-> ss, resolved |-> NotComputed, call |-> "main", raised |-> FALSE]}
    ELSE LET initial == generate_initial_schedule(ss["doctors"], selected_month,
                                                  selected_year)
             ss1 == Put(Put(ss, "initial_schedule", initial),
                        "conflicts", identify_conflicts(initial))
         IN IF DOMAIN ss1["conflicts"] # {}
            THEN {[state |-> ss1, resolved |-> NotComputed, call |-> "main",
                   raised |-> FALSE]}
            ELSE IF finalize_raises(initial, <<>>, ss1["doctors"])
            THEN {[state |-> ss1, resolved |-> <<>>, call |-> "generate",
                   raised |-> TRUE]}
            ELSE {[state |-> Put(ss1, "final_schedule", f), resolved |-> <<>>,
                   call |-> "generate", raised |-> FALSE] :
                      f \in finalize_schedule(initial, <<>>, ss1["doctors"])}

\* The block under "Conflict Resolution", after the outcome r of the run so
\* far.
ConflictPart(r, finalize) ==
    IF r.raised \/ ~Has(r.state, "conflicts") THEN {r}
    ELSE IF DOMAIN r.state["conflicts"] = {} THEN {r}
    ELSE LET rc == resolve_conflicts(r.state["conflicts"], r.state)
             initial == rc.state["initial_schedule"]
         IN IF rc.raised
            THEN {[state |-> rc.state, resolved |-> rc.resolved, call |-> r.call,
                   raised |-> TRUE]}
            ELSE IF ~finalize
            THEN {[state |-> rc.state, resolved |-> rc.resolved, call |-> r.call,
                   raised |-> FALSE]}
            ELSE IF finalize_raises(initial, rc.resolved, rc.state["doctors"])
            THEN {[state |-> rc.state, resolved |-> rc.resolved, call |-> "finalize",
                   raised |-> TRUE]}
            ELSE {[state |-> Put(rc.state, "final_schedule", f),
                   resolved |-> rc.resolved, call |-> "finalize", raised |-> FALSE] :
                      f \in finalize_schedule(initial, rc.resolved, rc.state["doctors"])}

\* End of a run: Streamlit may drop the stored value of a keyed widget that
\* the run did not render, or keep it.
CollectWidgets(r) ==
    LET rendered == {ConflictKey(d) : d \in DOMAIN r.resolved}
        stale == {key \in DOMAIN r.state : startswith(key, "conflict_")} \ rendered
    IN {r, [r EXCEPT !.state = Del(r.state, stale)]}

\* One run of main: the outcomes it can have.  The selectboxes return the
\* selected year and month (both non-zero, so the test on line 149 holds).
main(ss, selected_year, selected_month, form, generate, finalize) ==
    LET ss1 == Put(Put(ss, "selected_year", selected_year),
                   "selected_month", selected_month)
        ss2 == IF Has(ss1, "doctors") THEN ss1 ELSE Put(ss1, "doctors", <<>>)
        ss3 == SubmitForm(ss2, form)
    IN UNION {CollectWidgets(r2) :
                 r2 \in UNION {ConflictPart(r1, finalize) :
                                  r1 \in GeneratePart(ss3, selected_year,
                                                      selected_month, generate)}}

\* A run of main leaves its outcome: the session state, the map returned
\* by resolve_conflicts, and in pc which call of finalize_schedule the run
\* made, if any, and whether it raised.
Run(ss, selected_year, selected_month, form, generate, finalize) ==
    /\ \E r \in main(ss, selected_year, selected_month, form, generate, finalize) :
          /\ session_state' = r.state
          /\ resolved_schedule' = r.resolved
          /\ pc' = IF r.raised THEN r.call \o "_raised" ELSE r.call
    /\ UNCHANGED <<doctors, month, year, schedule, conflicts, final_schedule,
                   doctor_shift_count, day, after_seed, after_fill,
                   holidays, date_str, is_special>>

\* The first run of a session, on a day of year y and month m.
AppInit ==
    \E y \in AppYears, m \in AppMonths :
        /\ year = y /\ month = m
        /\ \E r \in main(<<>>, y, m, NoForm, FALSE, FALSE) :
              /\ session_state = r.state
              /\ resolved_schedule = r.resolved
              /\ pc = r.call
        /\ doctors = <<>>
        /\ schedule = NotComputed
        /\ conflicts = NotComputed
        /\ final_schedule = <<>>
        /\ doctor_shift_count = <<>>
        /\ day = 0
        /\ after_seed = NotComputed
        /\ after_fill = NotComputed
        /\ holidays = NotComputed
        /\ date_str = ""
        /\ is_special = FALSE

\* The user picks another year of year_range.
ChangeYear ==
    \E y \in AppYears \cap (year..(year + 9)) :
        /\ y # session_state["selected_year"]
        /\ Run(reset_scheduling_process(session_state), y,
               session_state["selected_month"], NoForm, FALSE, FALSE)

\* The user picks another month.
ChangeMonth ==
    \E m \in AppMonths \cap (1..12) :
        /\ m # session_state["selected_month"]
        /\ Run(reset_scheduling_process(session_state),
               session_state["selected_year"], m, NoForm, FALSE, FALSE)

\* The user submits the form.
SubmitDoctor ==
    \E form \in Forms :
        Run(session_state, session_state["selected_year"],
            session_state["selected_month"], form, FALSE, FALSE)

\* The user presses Generate Schedule.
PressGenerate ==
    Run(session_state, session_state["selected_year"],
        session_state["selected_month"], NoForm, TRUE, FALSE)

\* The user picks another doctor in a selectbox the last run rendered.
SelectConflict ==
    \E d \in DOMAIN resolved_schedule :
        \E doctor \in Range(session_state["conflicts"][d]) :
            /\ doctor # session_state[ConflictKey(d)]
            /\ Run(Put(session_state, ConflictKey(d), doctor),
                   session_state["selected_year"],
                   session_state["selected_month"], NoForm, FALSE, FALSE)

\* The user presses Finalize Schedule, which the last run rendered.
PressFinalize ==
    /\ Has(session_state, "conflicts")
    /\ DOMAIN session_state["conflicts"] # {}
    /\ pc \in {"main", "generate", "finalize"}
    /\ Run(session_state, session_state["selected_year"],
           session_state["selected_month"], NoForm, FALSE, TRUE)

AppNext ==
    \/ ChangeYear
    \/ ChangeMonth
    \/ SubmitDoctor
    \/ PressGenerate
    \/ SelectConflict
    \/ PressFinalize

SpecApp == AppInit /\ [][AppNext]_vars
(***************************************************************************)
(* Properties of the session, checked under SpecApp.                       *)
(***************************************************************************)
\* The key holds state derived by the scheduling process.
DerivedKey(key) ==
    \/ key \in {"initial_schedule", "conflicts", "final_schedule"}
    \/ startswith(key, "conflict_")

\* The step stored a final_schedule.
FinalScheduleWritten ==
    /\ Has(session_state', "final_schedule")
    /\ \/ ~Has(session_state, "final_schedule")
       \/ session_state'["final_schedule"] # session_state["final_schedule"]

\* C11: a run calls finalize_schedule from Generate Schedule only with no
\* conflicts stored and an empty resolution map, and from Finalize Schedule
\* only with a resolution map over exactly the stored conflict days, each
\* holding the stored choice of the day, a doctor of the day's list; a
\* choice the run had to create is the first doctor of the list; a
\* final_schedule is stored by these calls only.
C11_FinalizeCalls ==
    [][LET ss == session_state'
       IN /\ pc' \in {"generate", "generate_raised"} =>
                /\ DOMAIN ss["conflicts"] = {}
                /\ DOMAIN resolved_schedule' = {}
          /\ pc' \in {"finalize", "finalize_raised"} =>
                /\ DOMAIN ss["conflicts"] # {}
                /\ DOMAIN resolved_schedule' = DOMAIN ss["conflicts"]
                /\ \A d \in DOMAIN ss["conflicts"] :
                      /\ Contains(ss["conflicts"][d], resolved_schedule'[d])
                      /\ Has(ss, ConflictKey(d))
                      /\ resolved_schedule'[d] = ss[ConflictKey(d)]
          /\ FinalScheduleWritten => pc' \in {"generate", "finalize"}
          /\ Has(ss, "conflicts") =>
                \A d \in DOMAIN ss["conflicts"] :
                    (~Has(session_state, ConflictKey(d)) /\ Has(ss, ConflictKey(d)))
                        => ss[ConflictKey(d)] = ss["conflicts"][d][1]]_vars

\* Finalize Schedule has just stored a schedule for a conflict the user
\* resolved in favour of a doctor other than the first of the list.
C11_Witness ==
    /\ pc = "finalize"
    /\ Has(session_state, "final_schedule")
    /\ \E d \in DOMAIN resolved_schedule :
          /\ resolved_schedule[d] # session_state["conflicts"][d][1]
          /\ session_state["final_schedule"][d] = resolved_schedule[d]

\* The step changed the selected year or month.
SelectionChanged ==
    \/ session_state'["selected_year"] # session_state["selected_year"]
    \/ session_state'["selected_month"] # session_state["selected_month"]

\* C12: a change of the selected year or month leaves no initial_schedule,
\* conflicts, final_schedule or conflict_<day> key, and leaves the roster
\* and every other key but the selection as it was, and the run calls
\* neither resolve_conflicts nor finalize_schedule; derived state is stored
\* only together with an initial_schedule of the selected month, and an
\* initial_schedule appears only as generated from the roster for the
\* selected month and year.
C12_ResetOnChange ==
    /\ [][SelectionChanged =>
             /\ \A key \in DOMAIN session_state' : ~DerivedKey(key)
             /\ \A key \in DOMAIN session_state :
                   (~DerivedKey(key) /\ key \notin {"selected_year", "selected_month"})
                       => /\ Has(session_state', key)
                          /\ session_state'[key] = session_state[key]
             /\ pc' = "main"
             /\ resolved_schedule' = NotComputed]_vars
    /\ [][(~Has(session_state, "initial_schedule")
              /\ Has(session_state', "initial_schedule")) =>
             session_state'["initial_schedule"] =
                 generate_initial_schedule(session_state'["doctors"],
                                           session_state'["selected_month"],
                                           session_state'["selected_year"])]_vars
    /\ []((\E key \in DOMAIN session_state : DerivedKey(key)) =>
             /\ Has(session_state, "initial_schedule")
             /\ Len(session_state["initial_schedule"]) =
                    MonthEnd(session_state["selected_year"],
                             session_state["selected_month"]))

\* The session is in another month than it started in, with its roster and
\* without derived state.
C12_Witness ==
    /\ session_state["selected_month"] # month
    /\ session_state["doctors"] # <<>>
    /\ \A key \in DOMAIN session_state : ~DerivedKey(key)

\* The resolution maps that give every conflict day a doctor of its list.
CandidateResolutions(conf) ==
    {res \in [DOMAIN conf -> Range(DoctorPool)] :
        \A d \in DOMAIN conf : Contains(conf[d], res[d])}

\* C13: a stored final_schedule is a result of finalize_schedule for the
\* stored initial_schedule and the roster, and the stored initial_schedule
\* is the one generate_initial_schedule builds for the roster and the
\* selected month and year.
C13_NoStaleState ==
    Has(session_state, "final_schedule") =>
        /\ Has(session_state, "initial_schedule")
        /\ session_state["initial_schedule"] =
               generate_initial_schedule(session_state["doctors"],
                                         session_state["selected_month"],
                                         session_state["selected_year"])
        /\ \E res \in CandidateResolutions(
                          identify_conflicts(session_state["initial_schedule"])) :
              session_state["final_schedule"] \in
                  finalize_schedule(session_state["initial_schedule"], res,
                                    session_state["doctors"])
(***************************************************************************)
(* finalize_schedule on months long enough for the cleanup pass to visit   *)
(* more than one day: the form's multiselect puts no limit on the number   *)
(* of wanted days, and every conflict is resolved as the selectboxes       *)
(* resolve it.                                                             *)
(***************************************************************************)
\* Days of the longest demand map of these runs.
MaxChainDays == 4

\* Doctor records with any wanted days and at most one excluded day.
ChainDoctors(name, n) ==
    {[name |-> name, wanted_days |-> w, excluded_days |-> e, num_shifts |-> s] :
        <<w, e, s>> \in {t \in DayLists(1..n, n) \X DayLists(1..n, 1) \X {Inf, 1} :
                            Range(t[1]) \cap Range(t[2]) = {}}}

\* Rosters of the first 0, 1 or 2 names of the pool.
ChainRosters(n) ==
    {<<>>}
    \cup {<<a>> : a \in ChainDoctors(DoctorPool[1], n)}
    \cup {<<a, b>> : <<a, b>> \in ChainDoctors(DoctorPool[1], n)
                                     \X ChainDoctors(DoctorPool[2], n)}

\* Entry of finalize_schedule, after its two initialisations.
ChainInit ==
    \E n \in 1..MaxChainDays :
      \E roster \in ChainRosters(n) :
        \E res \in CandidateResolutions(identify_conflicts(BuildSchedule(roster, n))) :
          /\ doctors = roster
          /\ month = 0 /\ year = 0
          /\ schedule = BuildSchedule(roster, n)
          /\ conflicts = NotComputed
          /\ resolved_schedule = res
          /\ final_schedule = <<>>
          /\ doctor_shift_count = [d \in Range(Names(roster)) |-> 0]
          /\ day = 1
          /\ pc = "seed"
          /\ after_seed = NotComputed
          /\ after_fill = NotComputed
          /\ holidays = NotComputed
          /\ date_str = ""
          /\ is_special = FALSE
          /\ session_state = NotComputed

SpecChain == ChainInit /\ [][Next]_vars
====
